---- MODULE Spec2Model ----
(***************************************************************************)
(* The particle-morph scene of ZXC-D/TO_SC and its wish overlay.           *)
(*                                                                         *)
(* Numbers.  The program computes in IEEE doubles; the model computes in   *)
(* fixed point.  A progress value p is the integer p * PScale, a frame     *)
(* delta is an integer number of tenths of a second, and a smoothing       *)
(* factor is the exact fraction n / d; lerp rounds its result down to the  *)
(* resolution.  Comparisons against the source's thresholds (0.001, 0.01,  *)
(* 0.99) are exact on the fixed-point values.                              *)
(***************************************************************************)
EXTENDS Integers, Sequences, FiniteSets

VARIABLES
    isTreeAssembled,  \* App: useState(false), the isFormed prop of every group
    delta,            \* useFrame's delta in 0.1 s, held fixed along one behaviour
    toggles,          \* number of onToggleTree calls so far (bounded)
    mounted,          \* per group: meshRef.current is set
    progress,         \* per group: progress.current, fixed point
    instanceMatrix,   \* per group: the instanced mesh's per-slot transforms
    lastFrame,        \* per group: what the group's last useFrame call did
    elapsedTime,      \* state.clock.elapsedTime, in 0.1 s
    lightTimes,       \* the clock readings held in the lights' instance buffer
    topper,           \* TopStar: its group's position.y and scale, fixed point
    env,              \* the process environment getApiKey reads
    aiState,          \* UI: useState<AIState>
    pending,          \* the generateHolidayWish promise handleGenerateWish awaits
    requests,         \* number of wish requests started so far (bounded)
    serviceCalls      \* number of ai.models.generateContent calls so far

clockVars == <<elapsedTime, lightTimes, topper>>
sceneVars == <<delta, mounted, progress, instanceMatrix, lastFrame, clockVars>>
uiVars == <<env, aiState, pending, requests, serviceCalls>>
vars == <<isTreeAssembled, toggles, delta, mounted, progress, instanceMatrix,
          lastFrame, elapsedTime, lightTimes, topper, env, aiState, pending,
          requests, serviceCalls>>

(***************************************************************************)
(* Bounds of the model.                                                    *)
(***************************************************************************)
\* fixed-point resolution of a progress value: 1.0 is PScale
PScale == 1000000
\* how many times the user toggles the tree along one behaviour
MaxToggles == 2
\* how many idle steps (spin, float) one instance slot accumulates before the
\* model stops counting them
MaxIdleSteps == 2
\* how many wish requests the user starts along one behaviour
MaxRequests == 5
\* how far the clock runs along one behaviour of the clocked scene, in 0.1 s
MaxElapsed == 60

\* frame deltas in tenths of a second.  THREE.Clock.getDelta puts no ceiling
\* on delta: 0.3 s and 0.5 s are slow frames, 0.8 s a frame after a stall.
Deltas == {3, 5}
StalledDeltas == {8}

(***************************************************************************)
(* The groups and their compile-time constants.                            *)
(***************************************************************************)
Groups == {"needles", "spheres", "diamonds", "lights"}

count ==
    [g \in Groups |->
        CASE g = "needles" -> 1800
          [] g = "spheres" -> 40
          [] g = "diamonds" -> 30
          [] g = "lights" -> 100]

\* speed = k * delta with k = 2.5, 2, 2, 1.5: in tenths
speedTenths ==
    [g \in Groups |->
        CASE g = "needles" -> 25
          [] g = "spheres" -> 20
          [] g = "diamonds" -> 20
          [] g = "lights" -> 15]

Abs(x) == IF x < 0 THEN 0 - x ELSE x
Min(a, b) == IF a < b THEN a ELSE b
Max(a, b) == IF a < b THEN b ELSE a

(***************************************************************************)
(* THREE.MathUtils.lerp(x, y, t) = (1 - t) * x + t * y, with t = n / d.    *)
(* It does not clamp t.                                                    *)
(***************************************************************************)
lerp(x, y, n, d) == ((d - n) * x + n * y) \div d

\* speed = k * delta, as the fraction speedNum / speedDen (tenths times tenths)
speedNum(g, dt) == speedTenths[g] * dt
speedDen == 10 * 10

\* const target = isFormed ? 1 : 0
target(isFormed) == IF isFormed THEN PScale ELSE 0

\* Math.abs(progress.current - target) > 0.001
unsettled(p, tgt) == Abs(p - tgt) > PScale \div 1000

(***************************************************************************)
(* The transform tables, built once by useMemo.  A transform is kept as    *)
(* the particle it was computed for and the layout it belongs to; the      *)
(* random coordinates themselves are not modelled.                         *)
(***************************************************************************)
\* for (let i = 0; i < count; i++) { ...; tTransforms.push(..); ...;
\* sTransforms.push(..) }: pass i pushes the transform of particle i, so it
\* lands at index i of the array
buildTransforms(n, layout) ==
    [k \in 1..n |-> [particle |-> k - 1, layout |-> layout]]

treeTransforms == [g \in Groups |-> buildTransforms(count[g], "tree")]
scatterTransforms == [g \in Groups |-> buildTransforms(count[g], "scatter")]

\* arr[i] of the source, with its 0-based index
At(arr, i) == arr[i + 1]

(***************************************************************************)
(* The instanceMatrix of an instanced mesh.  The source writes it only in  *)
(* loops that run over every slot 0 .. count-1 within one useFrame call,   *)
(* so the whole buffer is determined by the progress value of the last     *)
(* recompute loop and the number of idle loops (spin, float) run over it   *)
(* since.  The state keeps those; matrixAt gives the slot they determine:  *)
(* the table entries slot i was interpolated from, its interpolation       *)
(* parameter t / tDen, the swirl angle applied to its position (in units   *)
(* of 2 pi / PScale) and the idle steps applied to it.  A mesh starts with *)
(* slots nobody wrote.                                                     *)
(***************************************************************************)
unwritten ==
    [written |-> FALSE, tree |-> 0 - 1, scatter |-> 0 - 1, t |-> 0, tDen |-> 1,
     swirl |-> 0, idle |-> 0]

\* new InstancedMesh(geometry, material, count)
newInstanceMatrix == [written |-> FALSE, p |-> 0, idle |-> 0]

\* if (progress.current > 0.01 && progress.current < 0.99)
swirlActive(p) == p > PScale \div 100 /\ p <= (99 * PScale - 1) \div 100

\* the swirl without its guard: the angle is applied at every progress
swirlAngleUnguarded(p) == PScale - p

\* const angle = (1 - progress.current) * Math.PI * 2, applied by applyAxisAngle
\* only inside the guard; no rotation is the angle 0
swirlAngle(p) == IF swirlActive(p) THEN PScale - p ELSE 0

\* the zipper with the delay's sign flipped: later indices run ahead
effectiveProgressAhead(p, i, n) ==
    Max(0, Min(2 * n * PScale, 3 * p * n + i * PScale))

\* the zipper without the factor 1.5: progress minus the delay
effectiveProgressNoLead(p, i, n) ==
    Max(0, Min(2 * n * PScale, 2 * p * n - i * PScale))

\* Math.max(0, Math.min(1, (progress.current * 1.5) - (i/count)*0.5)), as the
\* exact numerator over 2 * count * PScale
effectiveProgress(p, i, n) ==
    Max(0, Min(2 * n * PScale, 3 * p * n - i * PScale))

\* needles: lerp / slerp at progress.current, then the swirl, then setMatrixAt(i, ..)
needleSlot(tT, sT, i, p) ==
    [written |-> TRUE, tree |-> At(tT, i).particle, scatter |-> At(sT, i).particle,
     t |-> p, tDen |-> PScale, swirl |-> swirlAngle(p), idle |-> 0]

\* an ornament slot that reads the scatter table from the other end
ornamentSlotReversed(tT, sT, i, p, n) ==
    [written |-> TRUE, tree |-> At(tT, i).particle,
     scatter |-> At(sT, n - 1 - i).particle,
     t |-> effectiveProgress(p, i, n), tDen |-> 2 * n * PScale, swirl |-> 0,
     idle |-> 0]

\* ornaments: lerp / slerp at effectiveProgress, then setMatrixAt(i, ..)
ornamentSlot(tT, sT, i, p, n) ==
    [written |-> TRUE, tree |-> At(tT, i).particle, scatter |-> At(sT, i).particle,
     t |-> effectiveProgress(p, i, n), tDen |-> 2 * n * PScale, swirl |-> 0,
     idle |-> 0]

\* lights: lerp at progress.current, blink on the scale, then setMatrixAt(i, ..)
lightSlot(tT, sT, i, p) ==
    [written |-> TRUE, tree |-> At(tT, i).particle, scatter |-> At(sT, i).particle,
     t |-> p, tDen |-> PScale, swirl |-> 0, idle |-> 0]

\* for every i: lerp, (swirl | zipper | blink), setMatrixAt(i, dummy.matrix)
recompute(p) == [written |-> TRUE, p |-> p, idle |-> 0]

\* for every i: getMatrixAt(i, m); decompose; one idle step (rotation.y += 0.02,
\* or p.y += sin(..) * 0.002); setMatrixAt(i, ..).  The step count saturates.
idleLoop(buf) == [buf EXCEPT !.idle = Min(buf.idle + 1, MaxIdleSteps)]

\* the matrix getMatrixAt(i, ..) reads from group g's buffer buf
matrixAt(g, buf, i) ==
    IF ~buf.written
    THEN unwritten
    ELSE [(CASE g = "needles" ->
                needleSlot(treeTransforms[g], scatterTransforms[g], i, buf.p)
             [] g = "lights" ->
                lightSlot(treeTransforms[g], scatterTransforms[g], i, buf.p)
             [] OTHER ->
                ornamentSlot(treeTransforms[g], scatterTransforms[g], i, buf.p,
                             count[g]))
          EXCEPT !.idle = buf.idle]

\* what one useFrame call did: ran is "none" before the first frame,
\* "unmounted" after the early return, "threw" when the call dereferenced a
\* null meshRef.current (a TypeError), "frame" otherwise; before and formed
\* are the progress and the isFormed prop the call started from
noFrame == [ran |-> "none", morph |-> FALSE, idle |-> FALSE, before |-> 0,
            formed |-> FALSE]

(***************************************************************************)
(* The useFrame callbacks.  Each returns the group's new progress, its new *)
(* instanceMatrix and the record of what it did.                           *)
(***************************************************************************)
\* ParticleTree useFrame without "if (!meshRef.current) return": progress is
\* advanced, then setMatrixAt on the null mesh throws
frameNeedlesNoGuard(m, isFormed, p, buf, dt) ==
    LET g == "needles"
        tgt == target(isFormed)
        p2 == lerp(p, tgt, speedNum(g, dt), speedDen)
    IN  IF unsettled(p, tgt)
        THEN [progress |-> p2,
              instanceMatrix |-> IF m THEN recompute(p2) ELSE buf,
              frame |-> [ran |-> IF m THEN "frame" ELSE "threw", morph |-> TRUE,
                         idle |-> FALSE, before |-> p, formed |-> isFormed]]
        ELSE [progress |-> p, instanceMatrix |-> buf,
              frame |-> [ran |-> "frame", morph |-> FALSE, idle |-> FALSE,
                         before |-> p, formed |-> isFormed]]

\* ParticleTree useFrame
frameNeedles(m, isFormed, p, buf, dt) ==
    LET g == "needles"
        tgt == target(isFormed)
        p2 == lerp(p, tgt, speedNum(g, dt), speedDen)
    IN  IF ~m
        THEN [progress |-> p, instanceMatrix |-> buf,
              frame |-> [noFrame EXCEPT !.ran = "unmounted"]]
        ELSE IF unsettled(p, tgt)
        THEN [progress |-> p2,
              instanceMatrix |-> recompute(p2),
              frame |-> [ran |-> "frame", morph |-> TRUE, idle |-> FALSE,
                         before |-> p, formed |-> isFormed]]
        ELSE [progress |-> p, instanceMatrix |-> buf,
              frame |-> [ran |-> "frame", morph |-> FALSE, idle |-> FALSE,
                         before |-> p, formed |-> isFormed]]

\* Math.abs(progress.current - 1) < 0.01
nearFormed(p) == 100 * Abs(p - PScale) < PScale

\* type === 'diamond' && isFormed && Math.abs(progress.current - 1) < 0.01
spins(g, isFormed, p) == g = "diamonds" /\ isFormed /\ nearFormed(p)

\* InstancedOrnamentShape useFrame, for type g
frameOrnament(g, m, isFormed, p, buf, dt) ==
    LET tgt == target(isFormed)
        morph == unsettled(p, tgt)
        p2 == IF morph THEN lerp(p, tgt, speedNum(g, dt), speedDen) ELSE p
        buf2 == IF morph THEN recompute(p2) ELSE buf
        spin == spins(g, isFormed, p2)
    IN  IF ~m
        THEN [progress |-> p, instanceMatrix |-> buf,
              frame |-> [noFrame EXCEPT !.ran = "unmounted"]]
        ELSE [progress |-> p2,
              instanceMatrix |-> IF spin THEN idleLoop(buf2) ELSE buf2,
              frame |-> [ran |-> "frame", morph |-> morph, idle |-> spin,
                         before |-> p, formed |-> isFormed]]

\* InteractiveLights useFrame with "if (isFormed)" in place of
\* "else if (isFormed)": the idle loop also runs after a recompute
frameLightsNoElse(m, isFormed, p, buf, dt) ==
    LET g == "lights"
        tgt == target(isFormed)
        morph == unsettled(p, tgt)
        p2 == IF morph THEN lerp(p, tgt, speedNum(g, dt), speedDen) ELSE p
        buf2 == IF morph THEN recompute(p2) ELSE buf
    IN  IF ~m
        THEN [progress |-> p, instanceMatrix |-> buf,
              frame |-> [noFrame EXCEPT !.ran = "unmounted"]]
        ELSE [progress |-> p2,
              instanceMatrix |-> IF isFormed THEN idleLoop(buf2) ELSE buf2,
              frame |-> [ran |-> "frame", morph |-> morph, idle |-> isFormed,
                         before |-> p, formed |-> isFormed]]

\* InteractiveLights useFrame
frameLights(m, isFormed, p, buf, dt) ==
    LET g == "lights"
        tgt == target(isFormed)
        p2 == lerp(p, tgt, speedNum(g, dt), speedDen)
    IN  IF ~m
        THEN [progress |-> p, instanceMatrix |-> buf,
              frame |-> [noFrame EXCEPT !.ran = "unmounted"]]
        ELSE IF unsettled(p, tgt)
        THEN [progress |-> p2,
              instanceMatrix |-> recompute(p2),
              frame |-> [ran |-> "frame", morph |-> TRUE, idle |-> FALSE,
                         before |-> p, formed |-> isFormed]]
        ELSE IF isFormed
        THEN [progress |-> p,
              instanceMatrix |-> idleLoop(buf),
              frame |-> [ran |-> "frame", morph |-> FALSE, idle |-> TRUE,
                         before |-> p, formed |-> isFormed]]
        ELSE [progress |-> p, instanceMatrix |-> buf,
              frame |-> [ran |-> "frame", morph |-> FALSE, idle |-> FALSE,
                         before |-> p, formed |-> isFormed]]

\* the callback React Three Fiber runs for group g on a frame
frame(g, m, isFormed, p, buf, dt) ==
    CASE g = "needles" -> frameNeedles(m, isFormed, p, buf, dt)
      [] g = "lights" -> frameLights(m, isFormed, p, buf, dt)
      [] OTHER -> frameOrnament(g, m, isFormed, p, buf, dt)

(***************************************************************************)
(* The clock and what reads it.  elapsedTime is in tenths of a second, an  *)
(* angle is in hundredths of a radian, a sine in thousandths, a scale in   *)
(* ten-thousandths, a height in units of 1 / PScale.                       *)
(***************************************************************************)
\* Math.sin on [0, pi], by Bhaskara's rational form with pi = 3.14
sinHalfTurn(r) == (16000 * r * (314 - r)) \div (5 * 314 * 314 - 4 * r * (314 - r))

\* Math.sin(x) for x >= 0
sin(x) ==
    LET r == x % (2 * 314)
    IN  IF r <= 314 THEN sinHalfTurn(r) ELSE 0 - sinHalfTurn(r - 314)

\* dummy.scale.setScalar(..) of the tree layout: 0.2 or 0.15 for an ornament,
\* 0.05 for a light (a needle's is drawn at random and not modelled)
treeScale ==
    [g \in Groups \ {"needles"} |->
        CASE g = "spheres" -> 2000
          [] g = "diamonds" -> 1500
          [] g = "lights" -> 500]

\* dummy.scale.setScalar(..) of the scatter layout: 0 for an ornament, 0.01
\* for a light
scatterScale ==
    [g \in Groups \ {"needles"} |->
        CASE g = "spheres" -> 0
          [] g = "diamonds" -> 0
          [] g = "lights" -> 100]

\* sca.lerpVectors(sSca, tSca, effectiveProgress) of ornament i of group g,
\* recomputed at progress p
ornamentScale(g, i, p) ==
    lerp(scatterScale[g], treeScale[g],
         effectiveProgress(p, i, count[g]) \div (2 * count[g]), PScale)

\* Math.sin(state.clock.elapsedTime * 5 + i) * 0.5 + 0.5, in thousandths
blinkMorph(e, i) == (sin(50 * e + 100 * i) + 1000) \div 2

\* Math.sin(state.clock.elapsedTime * 3 + i * 0.5) * 0.5 + 0.5, in thousandths
blinkIdle(e, i) == (sin(30 * e + 50 * i) + 1000) \div 2

\* sca.lerpVectors(sSca, tSca, progress.current); sca.multiplyScalar(0.8 + blink * 0.4)
lightScaleMorph(e, i, p) ==
    (lerp(scatterScale["lights"], treeScale["lights"], p, PScale)
        * (800 + (4 * blinkMorph(e, i)) \div 10)) \div 1000

\* dummy.scale.copy(tSca).multiplyScalar(0.8 + blink * 0.5)
lightScaleIdle(e, i) ==
    (treeScale["lights"] * (800 + (5 * blinkIdle(e, i)) \div 10)) \div 1000

\* Math.sin(state.clock.elapsedTime + i) * 0.002, in units of 1 / PScale
floatStep(e, i) == 2 * sin(10 * e + 100 * i)

\* the clock readings the lights' buffer holds: wrote is the loop that wrote
\* it last ("none", "morph" or "idle"), at the elapsedTime of that loop, and
\* float the elapsedTime of every p.y += .. applied to the positions since
\* the last recompute
noLightTimes == [wrote |-> "none", at |-> 0, float |-> << >>]

\* the lights' loops of one frame, on the clock readings of the buffer
lightLoops(lt, fr, e) ==
    IF fr.morph THEN [wrote |-> "morph", at |-> e, float |-> << >>]
    ELSE IF fr.idle
    THEN [wrote |-> "idle", at |-> e, float |-> Append(lt.float, e)]
    ELSE lt

\* const targetY = isFormed ? 3.4 : 6
targetY(isFormed) == IF isFormed THEN (34 * PScale) \div 10 ELSE 6 * PScale

\* the scale pulse alone, without the factor of the formed state
topperScaleFull(e, isFormed) == 10000 + sin(20 * e)

\* (1 + Math.sin(state.clock.elapsedTime * 2) * 0.1) * (isFormed ? 1 : 0.5)
topperScale(e, isFormed) ==
    IF isFormed THEN 10000 + sin(20 * e) ELSE (10000 + sin(20 * e)) \div 2

\* <group ref={ref}>: position.y 0, rotation.y 0, scale 1, before any frame
newTopper ==
    [mounted |-> FALSE, ran |-> FALSE, formed |-> FALSE, before |-> 0, y |-> 0,
     rotation |-> 0, scale |-> 10000]

\* TopStar useFrame, at elapsedTime e
frameTopper(tp, isFormed, e) ==
    IF ~tp.mounted THEN tp
    ELSE [tp EXCEPT !.ran = TRUE, !.formed = isFormed, !.before = tp.y,
                    !.y = lerp(tp.y, targetY(isFormed), 5, 100),
                    !.rotation = 5 * e,
                    !.scale = topperScale(e, isFormed)]

(***************************************************************************)
(* The wish service (generateHolidayWish) and the UI's request handler.    *)
(***************************************************************************)
\* "孙畅大王，圣诞节快乐！Merry Christmas"
Fallback == "fallback"
\* null of AIState.message and AIState.error
Null == "<null>"
\* the error text handleGenerateWish's catch sets
SignalLost == "signal lost"

\* process is undefined (browser), API_KEY is unset, or API_KEY is set
Envs == {"no process", "", "key"}

\* try { return process.env.API_KEY || "" } catch (e) { return "" }
getApiKey(e) == IF e = "no process" THEN "" ELSE e

\* what ai.models.generateContent can do: reject, or resolve with a response
\* whose text is empty (or undefined) or a wish
ServiceOutcomes ==
    {[kind |-> "throw", text |-> ""], [kind |-> "text", text |-> ""],
     [kind |-> "text", text |-> "wish A"], [kind |-> "text", text |-> "wish B"]}

NoOutcome == [kind |-> "none", text |-> ""]
NoPending ==
    [stage |-> "none", rejected |-> FALSE, value |-> Null, outcome |-> NoOutcome,
     assembled |-> FALSE]

\* generateHolidayWish up to its await: with no key it returns the fallback,
\* otherwise it calls the service.  stage "service" is the call in flight,
\* "settled" the promise settled with value (or rejected).
wishStart(e) ==
    IF getApiKey(e) = ""
    THEN [NoPending EXCEPT !.stage = "settled", !.value = Fallback]
    ELSE [NoPending EXCEPT !.stage = "service"]

\* generateHolidayWish without its try/catch: a failed call rejects the promise
wishResumeNoCatch(pend, outcome) ==
    IF outcome.kind = "throw"
    THEN [pend EXCEPT !.stage = "settled", !.rejected = TRUE, !.outcome = outcome]
    ELSE [pend EXCEPT !.stage = "settled", !.outcome = outcome,
                      !.value = IF outcome.text = "" THEN Fallback ELSE outcome.text]

\* generateHolidayWish after its await: return text || fallback, and the
\* catch returns the fallback
wishResume(pend, outcome) ==
    IF outcome.kind = "throw"
    THEN [pend EXCEPT !.stage = "settled", !.value = Fallback, !.outcome = outcome]
    ELSE [pend EXCEPT !.stage = "settled", !.outcome = outcome,
                      !.value = IF outcome.text = "" THEN Fallback ELSE outcome.text]

\* handleGenerateWish without its first line
clickStartsAlways(assembled) == TRUE

\* if (!isTreeAssembled) return;
clickStarts(assembled) == assembled

NoState == [loading |-> FALSE, message |-> Null, error |-> Null]

InitWith(D, E) ==
    /\ isTreeAssembled = FALSE
    /\ delta \in D
    /\ toggles = 0
    /\ mounted = [g \in Groups |-> FALSE]
    /\ progress = [g \in Groups |-> 0]
    /\ instanceMatrix = [g \in Groups |-> newInstanceMatrix]
    /\ lastFrame = [g \in Groups |-> noFrame]
    /\ elapsedTime = 0
    /\ lightTimes = noLightTimes
    /\ topper = newTopper
    /\ env \in E
    /\ aiState = NoState
    /\ pending = NoPending
    /\ requests = 0
    /\ serviceCalls = 0

(***************************************************************************)
(* The scene: the state after construction, and its steps.                 *)
(***************************************************************************)
Init == InitWith(Deltas, {"no process"})

\* the four groups' useFrame callbacks of one display refresh, one after the
\* other
GroupFrames ==
    /\ LET r == [g \in Groups |->
                    frame(g, mounted[g], isTreeAssembled, progress[g],
                          instanceMatrix[g], delta)]
       IN  /\ progress' = [g \in Groups |-> r[g].progress]
           /\ instanceMatrix' = [g \in Groups |-> r[g].instanceMatrix]
           /\ lastFrame' = [g \in Groups |-> r[g].frame]
    /\ UNCHANGED <<isTreeAssembled, toggles, delta, mounted, uiVars>>

\* one display refresh as the progress values and the instance buffers see
\* it.  No progress value and no guard of a callback reads the clock, so the
\* scene without its clock is followed here; ClockTick is the refresh with it.
Tick == GroupFrames /\ UNCHANGED clockVars

\* the commit that attaches every ref of the scene: the instancedMesh refs
\* and TopStar's group ref
Mount ==
    /\ \E g \in Groups : ~mounted[g]
    /\ mounted' = [g \in Groups |-> TRUE]
    /\ topper' = [topper EXCEPT !.mounted = TRUE]
    /\ UNCHANGED <<isTreeAssembled, toggles, delta, progress, instanceMatrix,
                   lastFrame, elapsedTime, lightTimes, uiVars>>

\* onToggleTree: setIsTreeAssembled(prev => !prev)
Toggle ==
    /\ toggles < MaxToggles
    /\ toggles' = toggles + 1
    /\ isTreeAssembled' = ~isTreeAssembled
    /\ UNCHANGED <<sceneVars, uiVars>>

Next == Tick \/ Mount \/ Toggle

Spec == Init /\ [][Next]_vars

\* the scene with the stalled frame deltas too; frames keep coming
\* (requestAnimationFrame) and React commits the refs
InitStalled == InitWith(Deltas \cup StalledDeltas, {"no process"})
FairSpec == InitStalled /\ [][Next]_vars /\ WF_vars(Tick) /\ WF_vars(Mount)

(***************************************************************************)
(* The scene with its clock.  A refresh advances state.clock.elapsedTime   *)
(* by delta, then runs the callbacks, which read the advanced clock.       *)
(***************************************************************************)
ClockTick ==
    /\ elapsedTime + delta <= MaxElapsed
    /\ elapsedTime' = elapsedTime + delta
    /\ GroupFrames
    /\ lightTimes' =
           lightLoops(lightTimes,
                      frame("lights", mounted["lights"], isTreeAssembled,
                            progress["lights"], instanceMatrix["lights"],
                            delta).frame,
                      elapsedTime + delta)
    /\ topper' = frameTopper(topper, isTreeAssembled, elapsedTime + delta)

NextClock == ClockTick \/ Mount \/ Toggle

SpecClock == Init /\ [][NextClock]_vars

(***************************************************************************)
(* The UI: the wish button's steps, with the toggle.                       *)
(***************************************************************************)
InitUI == InitWith({3}, Envs)

\* onClick={handleGenerateWish} on a button with disabled={aiState.loading}:
\* handleGenerateWish up to its await
Click ==
    /\ ~aiState.loading
    /\ requests < MaxRequests
    /\ IF clickStarts(isTreeAssembled)
       THEN /\ aiState' = [loading |-> TRUE, message |-> Null, error |-> Null]
            /\ pending' = [wishStart(env) EXCEPT !.assembled = isTreeAssembled]
            /\ requests' = requests + 1
            /\ serviceCalls' =
                   IF wishStart(env).stage = "service"
                   THEN serviceCalls + 1 ELSE serviceCalls
       ELSE UNCHANGED <<aiState, pending, requests, serviceCalls>>
    /\ UNCHANGED <<isTreeAssembled, toggles, sceneVars, env>>

\* ai.models.generateContent settles, and generateHolidayWish runs to its end
ServiceRespond ==
    /\ pending.stage = "service"
    /\ \E outcome \in ServiceOutcomes : pending' = wishResume(pending, outcome)
    /\ UNCHANGED <<isTreeAssembled, toggles, sceneVars, env, aiState, requests,
                   serviceCalls>>

\* handleGenerateWish after its await: the try's setAiState, or the catch's
Resume ==
    /\ pending.stage = "settled"
    /\ aiState' =
           IF pending.rejected
           THEN [loading |-> FALSE, message |-> Null, error |-> SignalLost]
           ELSE [loading |-> FALSE, message |-> pending.value, error |-> Null]
    /\ pending' = NoPending
    /\ UNCHANGED <<isTreeAssembled, toggles, sceneVars, env, requests, serviceCalls>>

NextUI == Toggle \/ Click \/ ServiceRespond \/ Resume

SpecUI == InitUI /\ [][NextUI]_vars

(***************************************************************************)
(* Claims about the scene.                                                 *)
(***************************************************************************)
settledAt(p, tgt) == ~unsettled(p, tgt)
between(x, a, b) == Min(a, b) <= x /\ x <= Max(a, b)
slots(g) == 0 .. count[g] - 1

\* C1: with target = 1 every frame that recomputes (the group was not yet
\* within 0.001 of 1) strictly increases progress, and progress stays in
\* [0, 1] in every reachable state.
C1_ProgressMonotoneBounded ==
    \A g \in Groups :
        /\ 0 <= progress[g] /\ progress[g] <= PScale
        /\ (lastFrame[g].morph /\ lastFrame[g].formed)
               => progress[g] > lastFrame[g].before

\* C2: once isFormed is true and stays true, every group's progress comes
\* within 0.001 of 1 after finitely many frames and stays there.
C2_FormedConverges ==
    <>[]isTreeAssembled
        => <>[](\A g \in Groups : settledAt(progress[g], PScale))

\* C3: a toggle leaves every progress value as it is, and every frame that
\* changes a group's progress lands it between the previous value and the
\* current target, off the previous value.
C3_ReversalNoSnap ==
    [][/\ (isTreeAssembled' # isTreeAssembled) => (progress' = progress)
       /\ \A g \in Groups :
              (progress'[g] # progress[g])
                  => between(progress'[g], progress[g], target(isTreeAssembled))
      ]_vars

\* C4: while a group's mesh is not mounted no step changes its progress or its
\* instance buffer and its frame callback does not throw; the first frame
\* after the mount starts from that unchanged progress and, when it is off
\* the target, recomputes.
C4_UnmountedFrameIsNoOp ==
    [][\A g \in Groups :
          /\ ~mounted[g]
                 => /\ progress'[g] = progress[g]
                    /\ instanceMatrix'[g] = instanceMatrix[g]
                    /\ lastFrame'[g].ran \in {"none", "unmounted"}
          /\ (mounted[g] /\ lastFrame[g].ran = "unmounted"
                  /\ lastFrame'[g].ran # "unmounted")
                 => /\ lastFrame'[g].ran = "frame"
                    /\ lastFrame'[g].before = progress[g]
                    /\ progress[g] = 0
                    /\ lastFrame'[g].morph = isTreeAssembled
                    /\ isTreeAssembled => progress'[g] > 0
      ]_vars

\* a frame ran on an unmounted group while the toggle asked for the formed tree
C4_Witness ==
    \E g \in Groups :
        ~mounted[g] /\ lastFrame[g].ran = "unmounted" /\ isTreeAssembled

\* C5: generateHolidayWish never rejects; with no credential it settles with
\* the fallback and the service is never called; when the service call throws
\* or gives empty text it settles with the fallback.
C5_WishNeverRejects ==
    /\ ~pending.rejected
    /\ getApiKey(env) = "" => serviceCalls = 0
    /\ pending.stage = "settled" =>
           /\ getApiKey(env) = "" => pending.value = Fallback
           /\ (pending.outcome.kind = "throw" \/ pending.outcome.text = "")
                  => pending.value = Fallback
           /\ pending.value # Null

\* the service call threw and the promise settled with the fallback
C5_Witness ==
    /\ pending.stage = "settled" /\ pending.outcome.kind = "throw"
    /\ pending.value = Fallback /\ serviceCalls > 0

\* C6: a request is in flight only after a click made while isTreeAssembled
\* was true, and then the AI state is loading; after a request has ended the
\* AI state is not loading, holds a message and no error; the error state is
\* never reached.
C6_RequestLifecycle ==
    /\ aiState.error = Null
    /\ pending.stage # "none" =>
           /\ pending.assembled
           /\ aiState = [loading |-> TRUE, message |-> Null, error |-> Null]
    /\ pending.stage = "none" =>
           /\ ~aiState.loading
           /\ requests > 0 => aiState.message # Null
           /\ requests = 0 => aiState = NoState

\* a request whose service call threw has ended, showing the fallback, and the
\* tree has been taken apart since
C6_Witness ==
    /\ pending.stage = "none" /\ requests > 0 /\ serviceCalls > 0
    /\ aiState = [loading |-> FALSE, message |-> Fallback, error |-> Null]
    /\ ~isTreeAssembled

\* C7: in both ornament groups the interpolation parameters written by a
\* recompute are non-increasing in the slot index and lie in [0, 1].
C7_ZipperMonotone ==
    \A g \in {"spheres", "diamonds"} :
        instanceMatrix[g].written =>
            LET m == [i \in slots(g) |-> matrixAt(g, instanceMatrix[g], i)]
            IN  /\ \A i \in slots(g) : 0 <= m[i].t /\ m[i].t <= m[i].tDen
                /\ \A i \in slots(g) :
                       \A j \in (i + 1) .. (count[g] - 1) : m[i].t >= m[j].t

\* a recompute left an earlier ornament strictly ahead of a later one, both
\* strictly inside (0, 1)
C7_Witness ==
    \E g \in {"spheres", "diamonds"} :
        /\ instanceMatrix[g].written
        /\ LET a == matrixAt(g, instanceMatrix[g], 0)
               b == matrixAt(g, instanceMatrix[g], count[g] - 1)
           IN  0 < b.t /\ b.t < a.t /\ a.t < a.tDen

\* C8 as stated: the swirl angle of a needle is 0 when the progress of the
\* recompute is 0 or 1, and strictly between 0 and 2 pi when it is strictly
\* between 0 and 1.
C8_SwirlAsStated ==
    instanceMatrix["needles"].written =>
        \A i \in slots("needles") :
            LET s == matrixAt("needles", instanceMatrix["needles"], i)
            IN  /\ s.t \in {0, PScale} => s.swirl = 0
                /\ (0 < s.t /\ s.t < PScale) => (0 < s.swirl /\ s.swirl < PScale)

\* C8 amended: the swirl angle of a needle is 0 when the progress of the
\* recompute is at most 0.01 or at least 0.99, and is (1 - progress) * 2 pi,
\* strictly between 0 and 2 pi, when 0.01 < progress < 0.99.
C8_SwirlInsideBand ==
    instanceMatrix["needles"].written =>
        \A i \in slots("needles") :
            LET s == matrixAt("needles", instanceMatrix["needles"], i)
            IN  /\ (100 * s.t <= PScale \/ 100 * s.t >= 99 * PScale)
                       => s.swirl = 0
                /\ (100 * s.t > PScale /\ 100 * s.t < 99 * PScale)
                       => /\ s.swirl = PScale - s.t
                          /\ 0 < s.swirl /\ s.swirl < PScale

\* the needles were recomputed at a progress in [0.99, 1), off the target,
\* and at another time inside the band
C8_Witness ==
    /\ instanceMatrix["needles"].written
    /\ LET s == matrixAt("needles", instanceMatrix["needles"], 0)
       IN  100 * s.t >= 99 * PScale /\ s.t < PScale /\ s.swirl = 0

\* C9: both transform tables of a group hold count entries (1800, 40, 30,
\* 100), entry i of each is particle i's, and a recompute writes slot i from
\* entries i of both tables.
tablesAligned ==
    /\ count["needles"] = 1800 /\ count["spheres"] = 40
    /\ count["diamonds"] = 30 /\ count["lights"] = 100
    /\ \A g \in Groups :
        /\ Len(treeTransforms[g]) = count[g]
        /\ Len(scatterTransforms[g]) = count[g]
        /\ \A i \in slots(g) :
               /\ At(treeTransforms[g], i) = [particle |-> i, layout |-> "tree"]
               /\ At(scatterTransforms[g], i) = [particle |-> i, layout |-> "scatter"]

C9_TablesAligned ==
    /\ tablesAligned
    /\ \A g \in Groups :
           instanceMatrix[g].written =>
               \A i \in slots(g) :
                   LET s == matrixAt(g, instanceMatrix[g], i)
                   IN  s.tree = i /\ s.scatter = i

\* every group has been recomputed
C9_Witness == \A g \in Groups : instanceMatrix[g].written

\* C10 as stated: an idle effect runs on a frame only when the group was within
\* 0.001 of target = 1 before the frame, so never on a frame that recomputes
\* and never while target = 0.
C10_IdleOnlyWhenSettled ==
    \A g \in Groups :
        lastFrame[g].idle =>
            /\ ~lastFrame[g].morph
            /\ lastFrame[g].formed
            /\ settledAt(lastFrame[g].before, PScale)

\* C10 amended: the light blink/float runs on a frame only when the group was
\* within 0.001 of target = 1 before the frame, never with the recompute;
\* the diamond spin runs on a frame only when isFormed is true and the
\* progress after the frame's update is within 0.01 of 1, recompute or not;
\* needles and spheres have no idle effect; none runs while target = 0.
C10_IdleConditions ==
    \A g \in Groups :
        lastFrame[g].idle =>
            /\ g \in {"diamonds", "lights"}
            /\ lastFrame[g].formed
            /\ g = "lights" =>
                   ~lastFrame[g].morph /\ settledAt(lastFrame[g].before, PScale)
            /\ g = "diamonds" =>
                   /\ 100 * Abs(progress[g] - PScale) < PScale
                   /\ lastFrame[g].morph
                          <=> ~settledAt(lastFrame[g].before, PScale)

\* the diamonds spun on the frame that also recomputed them, while the lights
\* were recomputed without their idle effect
C10_Witness ==
    /\ lastFrame["diamonds"].idle /\ lastFrame["diamonds"].morph
    /\ lastFrame["lights"].morph /\ ~lastFrame["lights"].idle

\* C12: in both ornament groups the scale of the scatter layout is not zero,
\* and an ornament a recompute wrote at effectiveProgress 0 has a scale that
\* is not zero.
C12_ScatterScaleNonZero ==
    \A g \in {"spheres", "diamonds"} :
        instanceMatrix[g].written =>
            \A i \in slots(g) :
                /\ scatterScale[g] # 0
                /\ matrixAt(g, instanceMatrix[g], i).t = 0
                       => ornamentScale(g, i, instanceMatrix[g].p) # 0

\* C14: after a frame that ran on a mounted group and skipped the recompute,
\* the group's instance buffer has been written, from a progress within 0.001
\* of the frame's target, so that its slots are at the layout of that target.
C14_SettledBufferAtTarget ==
    \A g \in Groups :
        (mounted[g] /\ lastFrame[g].ran = "frame" /\ ~lastFrame[g].morph)
            => /\ instanceMatrix[g].written
               /\ matrixAt(g, instanceMatrix[g], 0).written
               /\ settledAt(instanceMatrix[g].p, target(lastFrame[g].formed))

\* C15: in both ornament groups, a buffer recomputed at a progress within
\* 0.001 of 1 has every slot at effectiveProgress exactly 1, and a buffer
\* recomputed at a progress within 0.001 of 0 has every slot but slot 0 at
\* effectiveProgress exactly 0.
C15_ZipperCompletes ==
    \A g \in {"spheres", "diamonds"} :
        instanceMatrix[g].written =>
            /\ settledAt(instanceMatrix[g].p, PScale) =>
                   \A i \in slots(g) :
                       LET s == matrixAt(g, instanceMatrix[g], i)
                       IN  s.t = s.tDen
            /\ settledAt(instanceMatrix[g].p, 0) =>
                   \A i \in 1 .. (count[g] - 1) :
                       matrixAt(g, instanceMatrix[g], i).t = 0

\* the last frame recomputed both ornament groups at a progress short of 1
\* and within 0.001 of it: the groups have settled at target = 1
C15_Witness ==
    \A g \in {"spheres", "diamonds"} :
        /\ instanceMatrix[g].written /\ lastFrame[g].morph /\ lastFrame[g].formed
        /\ instanceMatrix[g].p < PScale
        /\ settledAt(instanceMatrix[g].p, PScale)

(***************************************************************************)
(* Claims about the clocked scene.                                         *)
(***************************************************************************)
RECURSIVE sumFloat(_, _)
sumFloat(times, i) ==
    IF times = << >> THEN 0
    ELSE floatStep(Head(times), i) + sumFloat(Tail(times), i)

\* how far the rendered y of light i is from the y its last recompute wrote
lightFloat(i) == sumFloat(lightTimes.float, i)

\* the rendered scale of light i
lightScale(i) ==
    CASE lightTimes.wrote = "idle" -> lightScaleIdle(lightTimes.at, i)
      [] lightTimes.wrote = "morph" ->
            lightScaleMorph(lightTimes.at, i, instanceMatrix["lights"].p)
      [] OTHER -> 10000

\* after an idle loop the scale of every light is its tree-layout scale times
\* the blink of the current elapsed time
idleScaleFromLayout ==
    lightTimes.wrote = "idle" =>
        \A i \in slots("lights") :
            lightScale(i) = lightScaleIdle(elapsedTime, i)

\* C11: after an idle loop of the lights, the rendered scale of light i is its
\* tree-layout scale times the blink of the current elapsed time, and its
\* rendered height is off the height of the layout by the float of the
\* current elapsed time alone, however many idle loops ran before.
C11_IdleFromLayoutAndClock ==
    lightTimes.wrote = "idle" =>
        \A i \in slots("lights") :
            /\ lightScale(i) = lightScaleIdle(elapsedTime, i)
            /\ lightFloat(i) = floatStep(elapsedTime, i)

\* the topper's frame moved position.y from its value before the frame
\* towards goal, by a twentieth of the distance (and the rounding)
easedTowards(goal) ==
    /\ between(topper.y, topper.before, goal)
    /\ 100 * Abs(goal - topper.y) <= 95 * Abs(goal - topper.before) + 100

\* C13 as stated: on every frame of the topper its scale is the scale the
\* frame would have set at the same elapsed time with the other value of
\* isFormed, and its height eases towards 3.4 when formed and towards 6 when
\* scattered.
C13_ScaleIgnoresFormed ==
    topper.ran =>
        /\ topper.scale = topperScale(elapsedTime, ~topper.formed)
        /\ easedTowards(IF topper.formed THEN (34 * PScale) \div 10
                         ELSE 6 * PScale)

\* C13 amended: on every frame of the topper its scale is the pulse
\* 1 + 0.1 * sin(2 * elapsedTime) when formed and half the pulse when
\* scattered, and its height eases towards 3.4 when formed and towards 6 when
\* scattered.
C13_ScaleHalvedWhenScattered ==
    topper.ran =>
        LET pulse == 10000 + sin(20 * elapsedTime)
        IN  /\ 9000 <= pulse /\ pulse <= 11000
            /\ topper.formed => topper.scale = pulse
            /\ ~topper.formed => topper.scale = pulse \div 2
            /\ easedTowards(IF topper.formed THEN (34 * PScale) \div 10
                         ELSE 6 * PScale)

\* the topper rose above 3.4 while scattered, and a frame of the formed tree
\* then lowered it, at full scale
C13_Witness ==
    /\ topper.ran /\ topper.formed
    /\ topper.before > (34 * PScale) \div 10 /\ topper.y < topper.before
    /\ topper.scale >= 9000

====
